---- MODULE Spec2Model ----
(***************************************************************************)
(* State-machine model of src/app.js, the script of the landing page:      *)
(* the application state (App, Elements), the one-shot initialisation      *)
(* (initializeApp and everything it calls), the reveal timers armed by     *)
(* AnimationController.setupPageLoadAnimations, the hover / focus handlers *)
(* of setupHoverEffects, the intersection watcher of setupScrollAnimations *)
(* the image load / error handlers of PerformanceMonitor and ErrorHandler, *)
(* and the throttled scroll listener of Analytics.trackEngagement.         *)
(*                                                                         *)
(* The browser is the environment.  It owns the timer queue (timers armed  *)
(* in one synchronous run fire in order of delay, ties in arming order),   *)
(* the animation-frame queue, the pointer and the keyboard focus (one      *)
(* hovered element and one focused element at a time), the intersection    *)
(* observer and the image loader (every fetch ends in load or in error).   *)
(***************************************************************************)
EXTENDS Integers, Sequences, FiniteSets, TLC

\* ------------------------------------------------------------------ bounds
MaxCards == 6
MaxIcons == 2
MaxImages == 2
MaxUICards == 1
MaxUIIcons == 1
MaxRaf == 1
MaxEvents == 3
MaxScrolls == 4

\* --------------------------------------------------------- program constants
CardBaseDelay == 800
CardStepDelay == 150
IconBaseDelay == 1400
IconStepDelay == 100
ThrottleLimit == 100

VARIABLES
    pc,           \* position of the script: "script", "waiting", "done"
    readyState,   \* document.readyState when the script is evaluated
    initRuns,     \* number of times initializeApp has run
    appIsLoaded,  \* App.isLoaded
    apiIsLoaded,  \* window.LandingPageApp.isLoaded (the copy made at line 524)
    enabled,      \* App.animations.enabled
    nCards,       \* number of .link-card elements in the document
    nIcons,       \* number of .social-icon elements in the document
    hasFooter,    \* whether a .footer element exists
    style,        \* inline style of every card, icon and the footer
    hover,        \* per card: arrow / logo transform, animationName, animationDuration
    raf,          \* per card: animation-frame callbacks requested and not yet run
    timers,       \* reveal timers armed by setTimeout and not yet fired
    fired,        \* the reveal timers that fired, in firing order
    writers,      \* per target: the callbacks that wrote opacity / transform after scheduling
    listeners,    \* event listeners installed on cards and icons
    observed,     \* elements handed to IntersectionObserver.observe
    footerClasses,\* classList of the footer
    markAdds,     \* number of classList.add calls made by the intersection callback
    hovered,      \* the element under the pointer, or NoElement
    focused,      \* the element holding keyboard focus, or NoElement
    images,       \* per img element: src, alt, loading state, profile-image class
    imgListeners, \* indices of the images that got load / error listeners
    loadedImages, \* the closure counter of trackImageLoading
    totalImages,  \* images.length captured by trackImageLoading
    events,       \* number of image events delivered (bounds the image loader)
    scrollListener,\* whether the throttled scroll listener is installed
    scrollRange,  \* document.documentElement.scrollHeight - window.innerHeight
    pageYOffset,  \* window.pageYOffset
    inThrottle,   \* the closure variable of Utils.throttle: "undefined", "true", "false"
    throttleTimer,\* delay of the pending timer armed by the wrapper, 0 when none
    scrollDepth,  \* closure variable of trackEngagement
    maxScroll,    \* closure variable of trackEngagement
    invocations,  \* number of times the throttled function has run
    scrollEvents, \* number of scroll events delivered (bounds the scrolling)
    log           \* console output, in order

vars == <<pc, readyState, initRuns, appIsLoaded, apiIsLoaded, enabled, nCards, nIcons,
          hasFooter, style, hover, raf, timers, fired, writers, listeners, observed,
          footerClasses, markAdds, hovered, focused, images, imgListeners,
          loadedImages, totalImages, events, scrollListener, scrollRange, pageYOffset,
          inThrottle, throttleTimer, scrollDepth, maxScroll, invocations, scrollEvents,
          log>>

domVars == <<readyState, enabled, nCards, nIcons, hasFooter>>
pointerVars == <<hovered, focused>>
imageVars == <<images, imgListeners, loadedImages, totalImages, events>>
scrollState == <<scrollRange, pageYOffset, inThrottle, throttleTimer, scrollDepth, maxScroll,
                 invocations, scrollEvents>>
scrollVars == <<scrollListener, scrollState>>

\* ----------------------------------------------------------------- elements
Card(i) == [group |-> "card", index |-> i]
Icon(i) == [group |-> "icon", index |-> i]
Footer == [group |-> "footer", index |-> 0]
NoElement == [group |-> "none", index |-> 0]

LinkCards == {Card(i) : i \in 0..(nCards - 1)}
SocialIcons == {Icon(i) : i \in 0..(nIcons - 1)}
FooterElements == IF hasFooter THEN {Footer} ELSE {}
Targets == LinkCards \cup SocialIcons
StyledElements == Targets \cup FooterElements

UnsetStyle == [opacity |-> "", transform |-> "", transition |-> "", animation |-> ""]
UnsetHover == [arrow |-> "", logo |-> "", animationName |-> "", animationDuration |-> ""]
NoWriters == [opacity |-> {}, transform |-> {}]

Msg(m, n) == [msg |-> m, n |-> n]


\* -------------------------------------------- AnimationController (lines 74-231)
\* variants of CardDelay: a 1-based index, and a delay that ignores the index
CardDelayOneBased(index) == CardBaseDelay + ((index + 1) * CardStepDelay)

CardDelayFlat(index) == CardBaseDelay

\* setTimeout delay of the card at 0-based position index (line 115)
CardDelay(index) == CardBaseDelay + (index * CardStepDelay)

\* setTimeout delay of the icon at 0-based position index (line 132)
IconDelay(index) == IconBaseDelay + (index * IconStepDelay)

\* variant of GroupIsScheduled: the length test dropped
GroupIsScheduledAlways(n) == TRUE

\* the guard  list && list.length > 0  of lines 104 and 121
GroupIsScheduled(n) == n > 0

\* One armed timer: its target, its delay and its position in arming order.
Timer(el, d, s) == [target |-> el, delay |-> d, seq |-> s]

\* the setTimeout calls of linkCards.forEach (lines 105-116)
CardTimers(nc) ==
    IF GroupIsScheduled(nc)
    THEN {Timer(Card(i), CardDelay(i), i) : i \in 0..(nc - 1)}
    ELSE {}

\* the setTimeout calls of socialIcons.forEach (lines 122-133); cards are armed first
IconTimers(nc, ni) ==
    IF GroupIsScheduled(ni)
    THEN {Timer(Icon(i), IconDelay(i), Cardinality(CardTimers(nc)) + i) : i \in 0..(ni - 1)}
    ELSE {}

\* initial (hidden) style written at lines 107-108 and 124-125
HiddenStyle(el) ==
    IF el.group = "card"
    THEN [UnsetStyle EXCEPT !.opacity = "0", !.transform = "translateY(30px)"]
    ELSE [UnsetStyle EXCEPT !.opacity = "0", !.transform = "translateY(20px) scale(0.8)"]

\* variant of RevealedStyle: the callback sets the transition and forgets the opacity
RevealedStyleNoOpacity(el, old) ==
    IF el.group = "card"
    THEN [old EXCEPT !.transition = "all 0.6s cubic-bezier(0.4, 0, 0.2, 1)",
                     !.transform = "translateY(0)"]
    ELSE [old EXCEPT !.transition = "all 0.5s cubic-bezier(0.4, 0, 0.2, 1)",
                     !.transform = "translateY(0) scale(1)"]

\* style written by the timer callback (lines 112-114 and 129-131)
RevealedStyle(el, old) ==
    IF el.group = "card"
    THEN [old EXCEPT !.transition = "all 0.6s cubic-bezier(0.4, 0, 0.2, 1)",
                     !.opacity = "1",
                     !.transform = "translateY(0)"]
    ELSE [old EXCEPT !.transition = "all 0.5s cubic-bezier(0.4, 0, 0.2, 1)",
                     !.opacity = "1",
                     !.transform = "translateY(0) scale(1)"]

\* style written by disableAnimations to every matched element (lines 90-94)
DisabledStyle(old) ==
    [old EXCEPT !.opacity = "1", !.transform = "translateY(0)", !.animation = "none"]

\* the style of every element after setupPageLoadAnimations
PageLoadStyle ==
    [el \in StyledElements |->
        IF el \in LinkCards /\ GroupIsScheduled(nCards) THEN HiddenStyle(el)
        ELSE IF el \in SocialIcons /\ GroupIsScheduled(nIcons) THEN HiddenStyle(el)
        ELSE UnsetStyle]

\* console output of setupPageLoadAnimations (lines 117 and 134)
PageLoadLog ==
    (IF GroupIsScheduled(nCards)
     THEN <<Msg("link cards animated with staggered timing", nCards)>> ELSE <<>>)
    \o (IF GroupIsScheduled(nIcons)
        THEN <<Msg("social icons animated", nIcons)>> ELSE <<>>)

Listener(el, type) == [target |-> el, type |-> type]

\* addEventListener calls of setupHoverEffects (lines 142-176)
HoverListeners ==
    {Listener(c, t) : c \in LinkCards, t \in {"mouseenter", "mouseleave", "focus", "blur"}}
    \cup {Listener(i, t) : i \in SocialIcons, t \in {"mouseenter", "mouseleave"}}

\* console output of setupHoverEffects (line 161): a NodeList is truthy even when empty
HoverLog == <<Msg("Enhanced hover effects setup complete", 0)>>

\* variant of ObservedByScroll: the null test dropped
ObservedUnconditionally == {Footer}

\* observer.observe(footer) under  if (footer)  (lines 226-229)
ObservedByScroll == IF hasFooter THEN {Footer} ELSE {}

\* -------------------------------------------- PerformanceMonitor (lines 244-282)
ImageIds == 1..Len(images)

\* img.complete && img.naturalHeight !== 0  (line 255)
AlreadyLoaded(img) == img.state = "complete"

\* the images counted at line 256
CountedAtInit == {i \in ImageIds : AlreadyLoaded(images[i])}

\* console output of trackImageLoading itself (lines 250 and 280)
TrackImageLog ==
    IF Len(images) = 0 THEN <<Msg("No images to track", 0)>>
    ELSE IF Cardinality(CountedAtInit) = Len(images)
         THEN <<Msg("All images already loaded", 0)>>
         ELSE <<>>

\* ---------------------------------------------------- initializeApp (462-498)
\* variant of AnimationInit: the early return of line 79 dropped
AnimationInitNoReturn ==
    /\ style' = [el \in StyledElements |->
                    IF el \in Targets THEN PageLoadStyle[el] ELSE DisabledStyle(style[el])]
    /\ timers' = CardTimers(nCards) \cup IconTimers(nCards, nIcons)
    /\ listeners' = HoverListeners
    /\ observed' = ObservedByScroll

\* AnimationController.init (lines 76-85) with everything it calls
AnimationInit ==
    IF ~enabled
    THEN /\ style' = [el \in StyledElements |-> DisabledStyle(style[el])]
         /\ timers' = {}
         /\ listeners' = {}
         /\ observed' = {}
    ELSE /\ style' = PageLoadStyle
         /\ timers' = CardTimers(nCards) \cup IconTimers(nCards, nIcons)
         /\ listeners' = HoverListeners
         /\ observed' = ObservedByScroll

AnimationLog ==
    IF ~enabled
    THEN <<Msg("Animations disabled for accessibility", 0)>>
    ELSE PageLoadLog \o HoverLog

InitializeApp ==
    /\ initRuns' = initRuns + 1
    /\ totalImages' = Len(images)
    /\ loadedImages' = Cardinality(CountedAtInit)
    /\ imgListeners' = IF Len(images) = 0 THEN {} ELSE ImageIds \ CountedAtInit
    /\ AnimationInit
    /\ scrollListener' = TRUE
    /\ appIsLoaded' = TRUE
    /\ log' = log \o <<Msg("Initializing Professional Landing Page...", 0),
                       Msg("DOM elements cached", nCards + nIcons)>>
                  \o TrackImageLog
                  \o AnimationLog
                  \o <<Msg("Landing Page initialized successfully!", 0)>>
    /\ UNCHANGED <<domVars, scrollState, pointerVars, images, events, hover, raf, fired, writers,
                   footerClasses, markAdds>>

\* the script's top level (lines 514-537), document still loading or already parsed
RunScript ==
    /\ pc = "script"
    /\ IF readyState = "loading"
       THEN /\ pc' = "waiting"
            /\ apiIsLoaded' = appIsLoaded
            /\ log' = Append(log, Msg("Professional Landing Page loaded and ready!", 0))
            /\ UNCHANGED <<domVars, scrollVars, pointerVars, imageVars, initRuns, appIsLoaded, style,
                           hover, raf, timers, fired, writers, listeners, observed,
                           footerClasses, markAdds>>
       ELSE /\ InitializeApp
            /\ pc' = "done"
            /\ apiIsLoaded' = appIsLoaded'

\* the DOMContentLoaded listener registered at line 516
DOMContentLoaded ==
    /\ pc = "waiting"
    /\ InitializeApp
    /\ pc' = "done"
    /\ UNCHANGED apiIsLoaded

\* ------------------------------------------------------------ reveal timers
\* The browser runs the armed timers in order of delay, equal delays in arming order.
FiresBefore(t, u) == t.delay < u.delay \/ (t.delay = u.delay /\ t.seq <= u.seq)

NextTimers == {t \in timers : \A u \in timers : FiresBefore(t, u)}

Writer(kind, el) == [kind |-> kind, owner |-> el]

\* variant of TimerWrites: the callback does not close over its own element
TimerWritesAll(t) == Targets

\* the elements whose opacity and transform the callback of timer t writes
\* (card of lines 112-114, icon of lines 129-131: the forEach parameter)
TimerWrites(t) == {t.target}

\* variant of TimersAfter: a repeating timer (setInterval)
TimersAfterRepeating(t) == timers

\* setTimeout is one-shot: a timer that fired is no longer armed (lines 111, 128)
TimersAfter(t) == timers \ {t}

\* the setTimeout callback of lines 111-115 (cards) and 128-132 (icons)
FireTimer(t) ==
    /\ pc = "done"
    /\ t \in NextTimers
    /\ timers' = TimersAfter(t)
    /\ fired' = Append(fired, t)
    /\ style' = [el \in StyledElements |->
                    IF el \in TimerWrites(t) THEN RevealedStyle(el, style[el]) ELSE style[el]]
    /\ writers' = [el \in Targets |->
                    IF el \in TimerWrites(t)
                    THEN [opacity |-> writers[el].opacity \cup {Writer("timer", t.target)},
                          transform |-> writers[el].transform \cup {Writer("timer", t.target)}]
                    ELSE writers[el]]
    /\ UNCHANGED <<pc, domVars, scrollVars, pointerVars, imageVars, initRuns, appIsLoaded, apiIsLoaded,
                   hover, raf, listeners, observed, footerClasses, markAdds, log>>

\* ------------------------------------------------------ intersection watcher
\* variant of ShouldMark: the classList.contains test dropped
ShouldMarkAlways(isIntersecting, classes) == isIntersecting

\* entry.isIntersecting && !entry.target.classList.contains('animated')  (line 219)
ShouldMark(isIntersecting, classes) == isIntersecting /\ "animated" \notin classes

\* the IntersectionObserver callback for one entry of the footer (lines 217-223)
Intersect(isIntersecting) ==
    /\ pc = "done"
    /\ Footer \in observed
    /\ IF ShouldMark(isIntersecting, footerClasses)
       THEN /\ footerClasses' = footerClasses \cup {"fade-in", "animated"}
            /\ markAdds' = markAdds + 1
       ELSE UNCHANGED <<footerClasses, markAdds>>
    /\ UNCHANGED <<pc, domVars, scrollVars, pointerVars, imageVars, initRuns, appIsLoaded, apiIsLoaded,
                   style, hover, raf, timers, fired, writers, listeners, observed, log>>

\* ------------------------------------------------- hover and focus handlers
\* transform written by an icon's mouseenter / mouseleave listener (lines 169 and 173)
IconHoverTransform(isEntering) ==
    IF isEntering THEN "translateY(-4px) scale(1.1)" ELSE "translateY(0) scale(1)"

\* handleCardHover(card, isEntering) without its animation-frame request (lines 180-208)
CardHoverState(old, isEntering) ==
    IF isEntering
    THEN [arrow |-> "translateX(6px)", logo |-> "scale(1.15)",
          animationName |-> "none", animationDuration |-> "2s"]
    ELSE [old EXCEPT !.arrow = "translateX(0)", !.logo = "scale(1)",
                     !.animationName = "none"]

\* the listeners of one element for one event type (lines 144-159 and 168-174)
Dispatch(el, type, isEntering) ==
    IF Listener(el, type) \notin listeners
    THEN UNCHANGED <<style, writers, hover, raf>>
    ELSE IF el.group = "card"
    THEN /\ hover' = [hover EXCEPT ![el] = CardHoverState(@, isEntering)]
         /\ raf' = [raf EXCEPT ![el] = IF isEntering THEN @ + 1 ELSE @]
         /\ UNCHANGED <<style, writers>>
    ELSE /\ style' = [style EXCEPT ![el].transform = IconHoverTransform(isEntering)]
         /\ writers' = [writers EXCEPT ![el].transform = @ \cup {Writer(type, el)}]
         /\ UNCHANGED <<hover, raf>>

RECURSIVE PendingFrames(_)
\* the number of animation-frame callbacks waiting in the browser's frame queue
PendingFrames(cards) ==
    IF cards = {} THEN 0
    ELSE LET c == CHOOSE x \in cards : TRUE IN raf[c] + PendingFrames(cards \ {c})

\* an enter on a card requests one more frame (line 195); the model bounds the frame queue
CanRequestFrame(el) == el.group = "card" => PendingFrames(LinkCards) < MaxRaf

eventRest == <<pc, domVars, scrollVars, imageVars, initRuns, appIsLoaded, apiIsLoaded, timers, fired,
               listeners, observed, footerClasses, markAdds, log>>

\* the pointer moves onto a card or an icon
MouseEnter(el) ==
    /\ pc = "done"
    /\ el \in Targets
    /\ hovered = NoElement
    /\ CanRequestFrame(el)
    /\ hovered' = el
    /\ Dispatch(el, "mouseenter", TRUE)
    /\ UNCHANGED <<eventRest, focused>>

\* the pointer leaves the element it was on
MouseLeave(el) ==
    /\ pc = "done"
    /\ el \in Targets
    /\ hovered = el
    /\ hovered' = NoElement
    /\ Dispatch(el, "mouseleave", FALSE)
    /\ UNCHANGED <<eventRest, focused>>

\* keyboard focus moves onto a card (only cards get focus / blur listeners)
Focus(el) ==
    /\ pc = "done"
    /\ el \in LinkCards
    /\ focused = NoElement
    /\ CanRequestFrame(el)
    /\ focused' = el
    /\ Dispatch(el, "focus", TRUE)
    /\ UNCHANGED <<eventRest, hovered>>

\* keyboard focus leaves the element that held it
Blur(el) ==
    /\ pc = "done"
    /\ el \in LinkCards
    /\ focused = el
    /\ focused' = NoElement
    /\ Dispatch(el, "blur", FALSE)
    /\ UNCHANGED <<eventRest, hovered>>

\* the requestAnimationFrame callback of lines 195-197
AnimationFrame(el) ==
    /\ pc = "done"
    /\ el \in LinkCards
    /\ raf[el] > 0
    /\ raf' = [raf EXCEPT ![el] = @ - 1]
    /\ hover' = [hover EXCEPT ![el].animationName = "subtle-pulse"]
    /\ UNCHANGED <<eventRest, pointerVars, style, writers>>

\* ------------------------------------------------------------- image events
FallbackSrc == "https://ui-avatars.com/api/?name=Yaswanth+Reddy+Arumulla"
FallbackAlt == "Yaswanth Reddy Arumulla - DevOps Engineer (Generated Avatar)"

\* Assigning img.src starts a new fetch of the image, also when the URL is unchanged.
AssignSrc(img, url) == [img EXCEPT !.src = url, !.state = "loading"]

\* img.classList.contains('profile-image')  (line 289)
NeedsFallback(img) == img.profile

\* ErrorHandler.handleImageError (lines 288-295)
HandleImageError(img) ==
    IF NeedsFallback(img)
    THEN [AssignSrc(img, FallbackSrc) EXCEPT !.alt = FallbackAlt]
    ELSE img

HandleImageErrorLog(img) ==
    IF NeedsFallback(img) THEN <<Msg("Profile image fallback applied", 0)>> ELSE <<>>

\* the fetch of image i succeeds; the load listener of lines 258-265 runs if installed
ImageLoad(i) ==
    /\ pc = "done"
    /\ i \in ImageIds
    /\ images[i].state = "loading"
    /\ events < MaxEvents
    /\ events' = events + 1
    /\ images' = [images EXCEPT ![i].state = "complete"]
    /\ IF i \in imgListeners
       THEN /\ loadedImages' = loadedImages + 1
            /\ log' = log \o <<Msg("Image loaded successfully", i)>>
                          \o (IF loadedImages + 1 = totalImages
                              THEN <<Msg("All images loaded successfully", 0)>> ELSE <<>>)
       ELSE UNCHANGED <<loadedImages, log>>
    /\ UNCHANGED <<pc, domVars, scrollVars, pointerVars, initRuns, appIsLoaded, apiIsLoaded, style, hover,
                   raf, timers, fired, writers, listeners, observed, footerClasses, markAdds,
                   imgListeners, totalImages>>

\* the fetch of image i fails; the error listener of lines 267-275 runs if installed
ImageError(i) ==
    /\ pc = "done"
    /\ i \in ImageIds
    /\ images[i].state = "loading"
    /\ events < MaxEvents
    /\ events' = events + 1
    /\ IF i \in imgListeners
       THEN /\ images' = [images EXCEPT ![i] = HandleImageError([@ EXCEPT !.state = "broken"])]
            /\ loadedImages' = loadedImages + 1
            /\ log' = log \o <<Msg("Failed to load image", i)>>
                          \o HandleImageErrorLog(images[i])
                          \o (IF loadedImages + 1 = totalImages
                              THEN <<Msg("All images processed (some may have failed)", 0)>>
                              ELSE <<>>)
       ELSE /\ images' = [images EXCEPT ![i].state = "broken"]
            /\ UNCHANGED <<loadedImages, log>>
    /\ UNCHANGED <<pc, domVars, scrollVars, pointerVars, initRuns, appIsLoaded, apiIsLoaded, style, hover,
                   raf, timers, fired, writers, listeners, observed, footerClasses, markAdds,
                   imgListeners, totalImages>>

\* ----------------------------------------------- Utils.throttle, trackEngagement
Min(a, b) == IF a < b THEN a ELSE b
Max(a, b) == IF a > b THEN a ELSE b

\* Math.max(scrollHeight - innerHeight, 1)  (lines 334-337)
DocHeight == Max(scrollRange, 1)

\* Math.min((window.pageYOffset / docHeight) * 100, 100)  (line 338); the scroll ranges
\* of the model divide 100, so the quotient is exact
DepthAt(y) == Min((y * 100) \div DocHeight, 100)

\* variant of ThrottleAllows: the window test dropped
ThrottleAllowsAlways(flag) == TRUE

\* if (!inThrottle)  (line 50)
ThrottleAllows(flag) == flag # "true"

\* a scroll event at offset y; the wrapper returned by Utils.throttle (lines 47-55) runs
\* the function of lines 333-340 or drops the call
Scroll(y) ==
    /\ scrollEvents < MaxScrolls
    /\ scrollEvents' = scrollEvents + 1
    /\ pageYOffset' = y
    /\ IF scrollListener /\ ThrottleAllows(inThrottle)
       THEN /\ scrollDepth' = DepthAt(y)
            /\ maxScroll' = Max(maxScroll, DepthAt(y))
            /\ invocations' = invocations + 1
            /\ inThrottle' = "true"
            /\ throttleTimer' = ThrottleLimit
       ELSE UNCHANGED <<scrollDepth, maxScroll, invocations, inThrottle, throttleTimer>>
    /\ UNCHANGED <<pc, domVars, pointerVars, imageVars, initRuns, appIsLoaded, apiIsLoaded,
                   style, hover, raf, timers, fired, writers, listeners, observed,
                   footerClasses, markAdds, scrollListener, scrollRange, log>>

\* the setTimeout callback of line 53
ThrottleTimeout ==
    /\ throttleTimer > 0
    /\ throttleTimer' = 0
    /\ inThrottle' = "false"
    /\ UNCHANGED <<pc, domVars, pointerVars, imageVars, initRuns, appIsLoaded, apiIsLoaded,
                   style, hover, raf, timers, fired, writers, listeners, observed,
                   footerClasses, markAdds, scrollListener, scrollRange, pageYOffset,
                   scrollDepth, maxScroll, invocations, scrollEvents, log>>

\* ------------------------------------------------------------ specifications
\* the img elements of a document: image 1 may carry the profile-image class
ImageInputs(n) ==
    {imgs \in [1..n -> [src : {"original"}, alt : {"original"},
                        state : {"loading", "complete", "broken"}, profile : BOOLEAN]] :
        \A i \in 1..n : imgs[i].profile => i = 1}

\* the state when the script starts, for a document with the given element counts
InitPage(cardCounts, iconCounts, imageCounts, scrollRanges) ==
    /\ pc = "script"
    /\ readyState \in {"loading", "interactive"}
    /\ initRuns = 0
    /\ appIsLoaded = FALSE
    /\ apiIsLoaded = FALSE
    /\ enabled \in BOOLEAN
    /\ nCards \in cardCounts
    /\ nIcons \in iconCounts
    /\ hasFooter \in BOOLEAN
    /\ style = [el \in StyledElements |-> UnsetStyle]
    /\ hover = [el \in LinkCards |-> UnsetHover]
    /\ raf = [el \in LinkCards |-> 0]
    /\ timers = {}
    /\ fired = <<>>
    /\ writers = [el \in Targets |-> NoWriters]
    /\ listeners = {}
    /\ observed = {}
    /\ footerClasses = IF hasFooter THEN {"footer"} ELSE {}
    /\ markAdds = 0
    /\ hovered = NoElement
    /\ focused = NoElement
    /\ \E n \in imageCounts : images \in ImageInputs(n)
    /\ imgListeners = {}
    /\ loadedImages = 0
    /\ totalImages = 0
    /\ events = 0
    /\ scrollListener = FALSE
    /\ scrollRange \in scrollRanges
    /\ pageYOffset = 0
    /\ inThrottle = "undefined"
    /\ throttleTimer = 0
    /\ scrollDepth = 0
    /\ maxScroll = 0
    /\ invocations = 0
    /\ scrollEvents = 0
    /\ log = <<>>

\* the same for a document that does not scroll
InitWith(cardCounts, iconCounts, imageCounts) ==
    InitPage(cardCounts, iconCounts, imageCounts, {0})

\* Scheduling: initialisation, the reveal timers and the intersection watcher.
Init == InitWith(0..MaxCards, 0..MaxIcons, {0})

Next ==
    \/ RunScript
    \/ DOMContentLoaded
    \/ \E t \in timers : FireTimer(t)
    \/ \E b \in BOOLEAN : Intersect(b)

Spec == Init /\ [][Next]_vars

\* Interaction: scheduling together with the pointer, the keyboard and animation frames.
UserEvent ==
    \/ \E el \in Targets : MouseEnter(el)
    \/ \E el \in Targets : MouseLeave(el)
    \/ \E el \in LinkCards : Focus(el)
    \/ \E el \in LinkCards : Blur(el)
    \/ \E el \in LinkCards : AnimationFrame(el)

InitUI == InitWith(0..MaxUICards, 0..MaxUIIcons, {0})

NextUI == Next \/ UserEvent

SpecUI == InitUI /\ [][NextUI]_vars

\* The browser runs every armed timer: weak fairness of the timer queue.
FairSpecUI == SpecUI /\ WF_vars(\E t \in timers : FireTimer(t))

\* Images: initialisation and the image loader.
InitImg == InitWith({1}, {1}, 0..MaxImages)

NextImg ==
    \/ RunScript
    \/ DOMContentLoaded
    \/ \E t \in timers : FireTimer(t)
    \/ \E i \in ImageIds : ImageLoad(i)
    \/ \E i \in ImageIds : ImageError(i)

SpecImg == InitImg /\ [][NextImg]_vars

\* Scrolling: initialisation, scroll events and the throttle timer.  The page scrolls
\* between 0 and scrollRange and may overshoot either end by one.
ScrollRanges == {0, 2, 4}

ScrollOffsets == (0 - 1)..(scrollRange + 1)

InitScroll == InitPage({1}, {1}, {0}, ScrollRanges)

NextScroll ==
    \/ RunScript
    \/ DOMContentLoaded
    \/ \E y \in ScrollOffsets : Scroll(y)
    \/ ThrottleTimeout

SpecScroll == InitScroll /\ [][NextScroll]_vars

\* ================================================================= properties
Range(seq) == {seq[k] : k \in 1..Len(seq)}

\* every reveal timer armed so far, fired or not
ArmedTimers == timers \cup Range(fired)

TimersOf(group) == {t \in ArmedTimers : t.target.group = group}

DelaysOf(group) == {t.delay : t \in TimersOf(group)}

Scheduled == pc = "done" /\ enabled

AllFired == Scheduled /\ timers = {} /\ Len(fired) = nCards + nIcons

Logged(m) == \E k \in 1..Len(log) : log[k].msg = m

\* C1: with animations enabled, the timer of the target at 0-based index i is armed with
\* delay 800 + 150 i for a card and 1400 + 100 i for an icon; 3 cards fire at 800, 950,
\* 1100, 2 icons at 1400, 1500, and the last of n items at base + step * (n - 1).
C1_StaggeredDelays ==
    Scheduled =>
        /\ \A t \in TimersOf("card") : t.delay = 800 + (t.target.index * 150)
        /\ \A t \in TimersOf("icon") : t.delay = 1400 + (t.target.index * 100)
        /\ nCards = 3 => DelaysOf("card") = {800, 950, 1100}
        /\ nIcons = 2 => DelaysOf("icon") = {1400, 1500}
        /\ \A t \in TimersOf("card") :
              t.target.index = nCards - 1 => t.delay = 800 + (150 * (nCards - 1))
        /\ \A t \in TimersOf("icon") :
              t.target.index = nIcons - 1 => t.delay = 1400 + (100 * (nIcons - 1))

C1_Witness == AllFired /\ nCards = 3 /\ nIcons = 2

\* C2: a group of n targets arms exactly n reveals, one per target, with delays strictly
\* increasing in the index, and within a group the reveals fire in index order.
C2_OnePerTargetInOrder ==
    Scheduled =>
        /\ Cardinality(TimersOf("card")) = nCards
        /\ Cardinality(TimersOf("icon")) = nIcons
        /\ \A el \in Targets : Cardinality({t \in ArmedTimers : t.target = el}) = 1
        /\ \A t, u \in ArmedTimers :
              (t.target.group = u.target.group /\ t.target.index < u.target.index)
                  => t.delay < u.delay
        /\ \A j, k \in 1..Len(fired) :
              (j < k /\ fired[j].target.group = fired[k].target.group)
                  => fired[j].target.index < fired[k].target.index

C2_Witness == AllFired /\ nCards >= 3 /\ nIcons >= 2

\* C3: with animations disabled, once initialisation has run every card, icon and the
\* footer has opacity 1 and zero offset, and no reveal timer, hover listener or
\* intersection watcher exists.
C3_DisabledMeansVisibleNow ==
    (pc = "done" /\ ~enabled) =>
        /\ \A el \in StyledElements :
              style[el].opacity = "1" /\ style[el].transform = "translateY(0)"
        /\ ArmedTimers = {}
        /\ listeners = {}
        /\ observed = {}

C3_Witness == pc = "done" /\ ~enabled /\ nCards + nIcons = 5 /\ hasFooter

\* C4: the footer is marked exactly once: an intersecting callback on the unmarked footer
\* adds the marker, every later callback changes nothing, and the marker is never removed.
C4_FooterMarkedOnce ==
    /\ [](markAdds <= 1 /\ (markAdds = 1 <=> "animated" \in footerClasses))
    /\ [][Intersect(TRUE) => "animated" \in footerClasses']_vars
    /\ [][("animated" \in footerClasses)
             => (footerClasses' = footerClasses /\ markAdds' = markAdds)]_vars

C4_Witness == markAdds = 1 /\ {"fade-in", "animated"} \subseteq footerClasses

\* C8: an empty group is not scheduled: it gets no timer and no log line, and the other
\* group is scheduled with its own delays.
C8_EmptyGroupIsNoOp ==
    Scheduled =>
        /\ nCards = 0 =>
              /\ TimersOf("card") = {}
              /\ ~Logged("link cards animated with staggered timing")
              /\ DelaysOf("icon") = {1400 + (100 * i) : i \in 0..(nIcons - 1)}
              /\ nIcons > 0 => Logged("social icons animated")
        /\ nIcons = 0 =>
              /\ TimersOf("icon") = {}
              /\ ~Logged("social icons animated")
              /\ DelaysOf("card") = {800 + (150 * i) : i \in 0..(nCards - 1)}
              /\ nCards > 0 => Logged("link cards animated with staggered timing")
        /\ (nCards = 0 /\ nIcons = 0) => \A el \in StyledElements : style[el] = UnsetStyle

C8_Witness == AllFired /\ nCards = 0 /\ nIcons = 2

\* C10: a missing element is skipped: without a footer nothing is observed or marked, an
\* absent group has no timers and no listeners, initialisation completes, and the
\* elements that exist are scheduled as they are in any other document.
C10_MissingTargetSkipped ==
    Scheduled =>
        /\ observed \subseteq FooterElements
        /\ ~hasFooter => (footerClasses = {} /\ markAdds = 0)
        /\ \A t \in ArmedTimers : t.target \in Targets
        /\ \A l \in listeners : l.target \in Targets
        /\ {<<t.target.index, t.delay>> : t \in TimersOf("card")}
              = {<<i, 800 + (150 * i)>> : i \in 0..(nCards - 1)}
        /\ {<<t.target.index, t.delay>> : t \in TimersOf("icon")}
              = {<<i, 1400 + (100 * i)>> : i \in 0..(nIcons - 1)}
        /\ hasFooter => observed = {Footer}
        /\ appIsLoaded
        /\ log[Len(log)].msg = "Landing Page initialized successfully!"

C10_Witness == AllFired /\ ~hasFooter /\ nCards = 0 /\ nIcons = 2

\* the final style of a revealed target: opacity 1, zero offset, unit scale
IsVisible(st, el) ==
    /\ st.opacity = "1"
    /\ st.transform = (IF el.group = "card" THEN "translateY(0)" ELSE "translateY(0) scale(1)")

\* the initial style of a scheduled target: opacity 0
IsHidden(st) == st.opacity = "0"

HasTimer(el) == \E t \in timers : t.target = el

FiredCount(el) == Cardinality({k \in 1..Len(fired) : fired[k].target = el})

\* C5: under fair timer progress every armed reveal timer fires (the queue of scheduled
\* reveals drains and every target has been revealed), and a timer leaves the queue only
\* by firing, in a step that puts its own target in the Visible state, whatever the user does.
C5_ScheduledEventuallyVisible ==
    /\ (timers # {}) ~> (timers = {} /\ \A el \in Targets : FiredCount(el) = 1)
    /\ [][\A t \in timers :
             t \notin timers' => (fired' = Append(fired, t)
                                  /\ IsVisible(style'[t.target], t.target))]_vars

C5_Witness ==
    /\ AllFired /\ nCards >= 1 /\ nIcons >= 1
    /\ hovered # NoElement
    /\ \A el \in Targets : style[el].opacity = "1"

\* C6 as stated: opacity and transform of every target are written after scheduling by
\* the target's own reveal timer only, once.
C6_OnlyOwnTimerWrites ==
    \A el \in Targets :
        /\ writers[el].opacity \subseteq {Writer("timer", el)}
        /\ writers[el].transform \subseteq {Writer("timer", el)}
        /\ FiredCount(el) <= 1

\* C6 amended: a card's opacity and transform and an icon's opacity are written after
\* scheduling by the target's own reveal timer only, once; an icon's transform is written
\* by its own reveal timer and by its own mouseenter and mouseleave listeners.
C6_OwnTimerAndIconHoverWrite ==
    \A el \in Targets :
        /\ writers[el].opacity \subseteq {Writer("timer", el)}
        /\ FiredCount(el) <= 1
        /\ (FiredCount(el) = 1) <=> (writers[el].opacity = {Writer("timer", el)})
        /\ el \in LinkCards => writers[el].transform = writers[el].opacity
        /\ el \in SocialIcons =>
              /\ writers[el].transform \subseteq
                    {Writer("timer", el), Writer("mouseenter", el), Writer("mouseleave", el)}
              /\ (FiredCount(el) = 1) <=> (Writer("timer", el) \in writers[el].transform)

C6_Witness ==
    /\ \E el \in SocialIcons :
          writers[el].transform =
              {Writer("timer", el), Writer("mouseenter", el), Writer("mouseleave", el)}
    /\ \E el \in LinkCards :
          /\ writers[el].transform = {Writer("timer", el)}
          /\ hover[el].animationName = "subtle-pulse"

\* C7: a target is revealed at most once, a revealed target has opacity 1, and no step
\* takes a target that is Visible, or one that was revealed, back to Hidden.
C7_NoWayBackToHidden ==
    /\ [](\A el \in Targets :
             /\ FiredCount(el) <= 1
             /\ FiredCount(el) = 1 => ~IsHidden(style[el]))
    /\ [][\A el \in Targets :
             IsVisible(style[el], el) => ~IsHidden(style'[el])]_vars

C7_Witness ==
    /\ AllFired /\ nCards >= 1
    /\ \E el \in SocialIcons :
          /\ FiredCount(el) = 1
          /\ hovered = el
          /\ style[el].transform = "translateY(-4px) scale(1.1)"

\* C9 as stated: only the profile image is given the fallback source, other images keep
\* their source, and the handling of a failure does not start itself again.
FallbacksApplied ==
    Cardinality({k \in 1..Len(log) : log[k].msg = "Profile image fallback applied"})

C9_ImageFailureHandledOnce ==
    /\ \A i \in ImageIds :
          IF images[i].profile
          THEN images[i].src \in {"original", FallbackSrc}
          ELSE images[i].src = "original" /\ images[i].alt = "original"
    /\ FallbacksApplied <= 1

\* C11 as stated: every icon's reveal comes strictly after every card's reveal: each icon
\* delay exceeds each card delay, and no icon timer fires before a card timer.
C11_IconsAfterCards ==
    Scheduled =>
        /\ \A c \in TimersOf("card"), i \in TimersOf("icon") : c.delay < i.delay
        /\ \A j, k \in 1..Len(fired) :
              (fired[j].target.group = "icon" /\ fired[k].target.group = "card") => k < j

\* C12 as stated: from a leave (mouseleave or blur, which puts the arrow back at rest) to
\* the next enter, the card's animationName is 'none'.
C12_NoPulseAfterLeave ==
    \A c \in LinkCards :
        hover[c].arrow = "translateX(0)" => hover[c].animationName = "none"

\* an image has been processed: counted at initialisation, or its load or error listener ran
Processed(i) ==
    \/ i \notin imgListeners
    \/ Msg("Image loaded successfully", i) \in Range(log)
    \/ Msg("Failed to load image", i) \in Range(log)

\* C13 as stated: 'All images loaded successfully' is logged only if every image has
\* loaded and no error event fired; a completion message only if every image is processed.
C13_CompletionMessagesTruthful ==
    /\ Logged("All images loaded successfully") =>
          /\ \A i \in ImageIds : images[i].state = "complete"
          /\ ~Logged("Failed to load image")
    /\ (Logged("All images loaded successfully")
        \/ Logged("All images processed (some may have failed)")) =>
          \A i \in ImageIds : Processed(i)

\* C14 as stated: the counter of processed images never exceeds the number of images.
C14_CounterWithinTotal == pc = "done" => loadedImages <= totalImages

\* C16 as stated: initializeApp runs once, and when it has completed the loaded flag is
\* true in App and in the exposed API object.
C16_LoadedFlagEverywhere ==
    /\ initRuns <= 1
    /\ pc = "done" => (initRuns = 1 /\ appIsLoaded /\ apiIsLoaded)

\* a scroll event reaches the throttled wrapper in this step
ScrollCall == scrollListener /\ scrollEvents' = scrollEvents + 1

\* C15: the first call, and the first call after the window's timer has fired, run the
\* function at once and open a window; a call inside an open window is dropped and never
\* run later (only a scroll call runs the function); maxScroll never decreases and stays
\* within 0..100.
C15_ThrottleAndMaxScroll ==
    /\ [](maxScroll \in 0..100 /\ ((inThrottle = "true") <=> (throttleTimer > 0)))
    /\ [][maxScroll' >= maxScroll]_vars
    /\ [][(ScrollCall /\ inThrottle # "true") =>
             /\ invocations' = invocations + 1
             /\ inThrottle' = "true"
             /\ scrollDepth' <= 100
             /\ maxScroll' = (IF scrollDepth' > maxScroll THEN scrollDepth' ELSE maxScroll)]_vars
    /\ [][(ScrollCall /\ inThrottle = "true") =>
             /\ invocations' = invocations
             /\ scrollDepth' = scrollDepth
             /\ maxScroll' = maxScroll]_vars
    /\ [][invocations' # invocations => ScrollCall]_vars

C15_Witness ==
    /\ invocations >= 2
    /\ scrollEvents > invocations
    /\ maxScroll = 100
    /\ scrollDepth < maxScroll
    /\ inThrottle = "false"

====
